---- MODULE Spec2Model ----
(***************************************************************************)
(* Model of app.py: a Streamlit script that forwards a prompt and an       *)
(* optional image to a chat-completion API and logs every exchange in the  *)
(* SQLite table "conversations".  Streamlit re-executes the whole script   *)
(* on every interaction, so every action below is one complete script run: *)
(* module-level startup code followed by main().                           *)
(***************************************************************************)
EXTENDS Integers, Sequences, FiniteSets, TLC

\* ------------------------------------------------------------------ bounds
MaxCalls == 2          \* script runs that reach analyze_image_with_prompt
MaxClock == 2          \* last clock tick that the wall clock reaches
MaxPixelBytes == 4     \* longest pixel data among CodecFiles
TicksPerSecond == 2    \* clock resolution: datetime.now() is finer than 1 s

\* ------------------------------------------------------- optional values
None == [none |-> TRUE]
Some(v) == [some |-> v]

\* result of a call that may raise: a value, or the exception's str()
Return(v) == [ok |-> TRUE, value |-> v]
Raise(m) == [ok |-> FALSE, error |-> m]

\* ------------------------------------------------------------ str.strip
Whitespace == {" ", "\t", "\n"}

RECURSIVE lstrip(_)
lstrip(s) ==
    IF s = <<>> THEN <<>>
    ELSE IF Head(s) \in Whitespace THEN lstrip(Tail(s)) ELSE s

RECURSIVE rstrip(_)
rstrip(s) ==
    IF s = <<>> THEN <<>>
    ELSE IF s[Len(s)] \in Whitespace THEN rstrip(SubSeq(s, 1, Len(s) - 1)) ELSE s

strip(s) == rstrip(lstrip(s))

\* ------------------------------------------------------------- base64
B64Alphabet ==
    << "A","B","C","D","E","F","G","H","I","J","K","L","M","N","O","P",
       "Q","R","S","T","U","V","W","X","Y","Z","a","b","c","d","e","f",
       "g","h","i","j","k","l","m","n","o","p","q","r","s","t","u","v",
       "w","x","y","z","0","1","2","3","4","5","6","7","8","9","+","/" >>

B64Char(n) == B64Alphabet[n + 1]
B64Value ==
    [ch \in {B64Alphabet[i] : i \in 1..64} |->
        (CHOOSE i \in 1..64 : B64Alphabet[i] = ch) - 1]
B64Index(ch) == B64Value[ch]
IsB64Char(ch) == ch \in DOMAIN B64Value

\* base64.b64encode(...).decode("utf-8"): three bytes become four characters,
\* a final group of one or two bytes is padded with "="
RECURSIVE b64encode(_)
b64encode(bytes) ==
    IF Len(bytes) = 0 THEN <<>>
    ELSE IF Len(bytes) = 1 THEN
        << B64Char(bytes[1] \div 4), B64Char((bytes[1] % 4) * 16), "=", "=" >>
    ELSE IF Len(bytes) = 2 THEN
        << B64Char(bytes[1] \div 4),
           B64Char((bytes[1] % 4) * 16 + bytes[2] \div 16),
           B64Char((bytes[2] % 16) * 4), "=" >>
    ELSE
        << B64Char(bytes[1] \div 4),
           B64Char((bytes[1] % 4) * 16 + bytes[2] \div 16),
           B64Char((bytes[2] % 16) * 4 + bytes[3] \div 64),
           B64Char(bytes[3] % 64) >> \o b64encode(SubSeq(bytes, 4, Len(bytes)))

RECURSIVE B64Filter(_)
B64Filter(text) ==
    IF text = <<>> THEN <<>>
    ELSE IF IsB64Char(Head(text)) \/ Head(text) = "="
         THEN <<Head(text)>> \o B64Filter(Tail(text))
         ELSE B64Filter(Tail(text))

RECURSIVE B64Quads(_)
B64Quads(t) ==
    IF t = <<>> THEN <<>>
    ELSE LET a == B64Index(t[1])
             b == B64Index(t[2])
             rest == SubSeq(t, 5, Len(t))
         IN  IF t[3] = "=" THEN << a * 4 + b \div 16 >>
             ELSE LET c == B64Index(t[3])
                  IN  IF t[4] = "="
                      THEN << a * 4 + b \div 16, (b % 16) * 16 + c \div 4 >>
                      ELSE << a * 4 + b \div 16, (b % 16) * 16 + c \div 4,
                              (c % 4) * 64 + B64Index(t[4]) >> \o B64Quads(rest)

\* base64.b64decode(text) with validate=False: characters outside the alphabet
\* are discarded, then the text must consist of whole, correctly padded groups
b64decode(text) ==
    LET t == B64Filter(text)
        wellPadded ==
            /\ Len(t) % 4 = 0
            /\ \A i \in 1..Len(t) :
                   t[i] = "=" =>
                       /\ i \in {Len(t) - 1, Len(t)}
                       /\ t[Len(t)] = "="
    IN  IF wellPadded THEN Return(B64Quads(t)) ELSE Raise("Incorrect padding")

\* ---------------------------------------------------------------- images
\* A file is a sequence of bytes: a magic byte, a header byte giving the pixel
\* layout, then the pixel data.  An opened image is its mode and pixel data.
PNGMagic == 137
JPEGMagic == 255

PNGColourType == [L |-> 0, RGB |-> 2, RGBA |-> 6]
JPEGComponents == [L |-> 1, RGB |-> 3, CMYK |-> 4]
Channels == [L |-> 1, RGB |-> 3, RGBA |-> 4, CMYK |-> 4]

ModeOf(table, code) == CHOOSE m \in DOMAIN table : table[m] = code

\* PIL.Image.open
Image_open(file) ==
    LET table == IF file[1] = PNGMagic THEN PNGColourType ELSE JPEGComponents
        data == SubSeq(file, 3, Len(file))
    IN  IF /\ Len(file) >= 3
           /\ file[1] \in {PNGMagic, JPEGMagic}
           /\ \E m \in DOMAIN table : table[m] = file[2]
           /\ Len(data) % Channels[ModeOf(table, file[2])] = 0
        THEN Return([mode |-> ModeOf(table, file[2]), data |-> data])
        ELSE Raise("cannot identify image file")

\* variant: the image is written as JPEG, which quantises the pixel data
save_jpeg(pil_image) ==
    IF pil_image.mode \in DOMAIN JPEGComponents
    THEN Return(<<JPEGMagic, JPEGComponents[pil_image.mode]>>
                \o [i \in 1..Len(pil_image.data) |-> (pil_image.data[i] \div 2) * 2])
    ELSE Raise("cannot write mode " \o pil_image.mode \o " as JPEG")

\* pil_image.save(buffered, format="PNG"); buffered.getvalue()
save_png(pil_image) ==
    IF pil_image.mode \in DOMAIN PNGColourType
    THEN Return(<<PNGMagic, PNGColourType[pil_image.mode]>> \o pil_image.data)
    ELSE Raise("cannot write mode " \o pil_image.mode \o " as PNG")

encode_image_to_base64(pil_image) ==
    LET buffered == save_png(pil_image)
    IN  IF buffered.ok THEN Return(b64encode(buffered.value)) ELSE buffered

\* base64.b64decode followed by Image.open, as the history sidebar does
decode_base64_to_image(base64_img) ==
    LET img_data == b64decode(base64_img)
    IN  IF img_data.ok THEN Image_open(img_data.value) ELSE img_data

\* ------------------------------------------------------------- timestamps
Digit == <<"0", "1", "2", "3", "4", "5", "6", "7", "8", "9">>
TwoDigits(n) == Digit[((n \div 10) % 10) + 1] \o Digit[(n % 10) + 1]

\* datetime.now().strftime("... %H:%M:%S"): the clock cut to whole seconds
strftime(now) ==
    LET s == now \div TicksPerSecond
    IN  TwoDigits((s \div 3600) % 24) \o ":" \o TwoDigits((s \div 60) % 60)
            \o ":" \o TwoDigits(s % 60)

\* ------------------------------------------------------------ the database
\* conversations.db: whether the table exists, its rows, and the AUTOINCREMENT
\* counter SQLite keeps in sqlite_sequence
NoDatabase == [exists |-> FALSE, conversations |-> {}, sqlite_sequence |-> 0]

\* variant: CREATE TABLE without IF NOT EXISTS after dropping the old table
create_table_afresh(d) ==
    [exists |-> TRUE, conversations |-> {}, sqlite_sequence |-> 0]

\* CREATE TABLE IF NOT EXISTS conversations (...)
create_table(d) ==
    IF d.exists THEN d
    ELSE [exists |-> TRUE, conversations |-> {}, sqlite_sequence |-> 0]

MaxRowId(rows) ==
    IF rows = {} THEN 0 ELSE CHOOSE n \in {r.id : r \in rows} : \A r \in rows : r.id <= n

\* id INTEGER PRIMARY KEY AUTOINCREMENT: one more than the largest id ever used
NextId(d) ==
    (IF d.sqlite_sequence > MaxRowId(d.conversations)
     THEN d.sqlite_sequence ELSE MaxRowId(d.conversations)) + 1

\* variant: the INSERT leaves the image column out
save_conversation_without_image(d, now, user_prompt, base64_image, bot_response) ==
    LET row == [id |-> NextId(d), user_prompt |-> user_prompt,
                base64_image |-> None, bot_response |-> bot_response,
                timestamp |-> strftime(now)]
    IN  [exists |-> d.exists,
         conversations |-> d.conversations \cup {row},
         sqlite_sequence |-> row.id]

save_conversation(d, now, user_prompt, base64_image, bot_response) ==
    LET timestamp_str == strftime(now)
        row == [id |-> NextId(d), user_prompt |-> user_prompt,
                base64_image |-> base64_image, bot_response |-> bot_response,
                timestamp |-> timestamp_str]
    IN  [exists |-> d.exists,
         conversations |-> d.conversations \cup {row},
         sqlite_sequence |-> row.id]

\* variant: ORDER BY id, without DESC
RECURSIVE OrderById(_)
OrderById(rows) ==
    IF rows = {} THEN <<>>
    ELSE LET low == CHOOSE r \in rows : \A q \in rows : r.id <= q.id
         IN  <<low>> \o OrderById(rows \ {low})

\* ORDER BY id DESC
RECURSIVE OrderByIdDesc(_)
OrderByIdDesc(rows) ==
    IF rows = {} THEN <<>>
    ELSE LET top == CHOOSE r \in rows : \A q \in rows : q.id <= r.id
         IN  <<top>> \o OrderByIdDesc(rows \ {top})

Columns(r) == <<r.user_prompt, r.base64_image, r.bot_response, r.timestamp>>

\* SELECT user_prompt, base64_image, bot_response, timestamp ... ; fetchall()
load_conversations(d) ==
    LET ordered == OrderByIdDesc(d.conversations)
    IN  [i \in 1..Len(ordered) |-> Columns(ordered[i])]

\* ------------------------------------------------------------- the script
Truthy(opt) == opt # None /\ opt.some # <<>>

DataUrlPrefix ==
    << "d","a","t","a",":","i","m","a","g","e","/","p","n","g",";",
       "b","a","s","e","6","4","," >>

\* analyze_image_with_prompt: `api` is what client.chat.completions.create does
\* when it is reached (returns the message content, or raises).  The result is
\* what the function returns or raises, with the request it sent, if any.
analyze_image_with_prompt(image, prompt, api) ==
    LET encoded == IF image # None THEN encode_image_to_base64(image.some)
                   ELSE Return(<<>>)
        base64_image == IF image # None THEN Some(encoded.value) ELSE None
        content_list ==
            << [type |-> "text", text |-> prompt] >>
            \o (IF Truthy(base64_image)
                THEN << [type |-> "image_url",
                         url |-> DataUrlPrefix \o base64_image.some] >>
                ELSE <<>>)
    IN  IF ~encoded.ok
        THEN [result |-> encoded, request |-> None]
        ELSE [result |-> api, request |-> Some(content_list)]

KeyMissingMessage ==
    "OpenAI API key not found. Please set OPENAI_API_KEY in .env or environment variables."

\* what a run of the script leaves behind
Outcome(exception, stopped, connected, page, sidebar, d, analysis, saved) ==
    [exception |-> exception, stopped |-> stopped, connected |-> connected,
     page |-> page, sidebar |-> sidebar, db |-> d,
     analysis |-> analysis, saved |-> saved]

\* the uploader and the try/except around Image.open
OpenUpload(uploaded_file) ==
    IF uploaded_file = None THEN [image_obj |-> None, page |-> <<>>]
    ELSE LET opened == Image_open(uploaded_file.some)
         IN  IF opened.ok
             THEN [image_obj |-> Some(opened.value), page |-> <<>>]
             ELSE [image_obj |-> None,
                   page |-> << [kind |-> "error",
                                text |-> "Error reading image: " \o opened.error] >>]

\* variant: the prompt is tested without strip()
IsEmptySubmissionUnstripped(prompt, image_obj) == prompt = <<>> /\ image_obj = None

\* the test that turns a Send into a warning
IsEmptySubmission(prompt, image_obj) == strip(prompt) = <<>> /\ image_obj = None

\* variant: no try/except around the decoding, so that a record whose image
\* does not decode ends the rendering of that record
RenderConversationUncaught(idx, convo) ==
    LET img == IF Truthy(convo[2]) THEN decode_base64_to_image(convo[2].some)
               ELSE Raise("")
    IN  << [kind |-> "markdown", idx |-> idx, timestamp |-> convo[4]],
           [kind |-> "markdown", user_prompt |-> convo[1]] >>
        \o (IF ~Truthy(convo[2])
            THEN << [kind |-> "markdown", bot_response |-> convo[3]],
                    [kind |-> "write", text |-> "---"] >>
            ELSE IF img.ok
            THEN << [kind |-> "image", img |-> img.value],
                    [kind |-> "markdown", bot_response |-> convo[3]],
                    [kind |-> "write", text |-> "---"] >>
            ELSE <<>>)

\* the sidebar entries of one stored record
RenderConversation(idx, convo) ==
    LET user_prompt == convo[1]
        base64_img == convo[2]
        bot_resp == convo[3]
        timestamp == convo[4]
        img == IF Truthy(base64_img) THEN decode_base64_to_image(base64_img.some)
               ELSE Raise("")
    IN  << [kind |-> "markdown", idx |-> idx, timestamp |-> timestamp],
           [kind |-> "markdown", user_prompt |-> user_prompt] >>
        \o (IF Truthy(base64_img) /\ img.ok
            THEN << [kind |-> "image", img |-> img.value] >> ELSE <<>>)
        \o << [kind |-> "markdown", bot_response |-> bot_resp],
              [kind |-> "write", text |-> "---"] >>

RECURSIVE RenderFrom(_, _)
RenderFrom(idx, all_convos) ==
    IF idx > Len(all_convos) THEN <<>>
    ELSE RenderConversation(idx, all_convos[idx]) \o RenderFrom(idx + 1, all_convos)

SidebarHeader == [kind |-> "header", text |-> "View Stored Conversations"]

\* the sidebar: the header, and the history when Load All was pressed
Sidebar(d, load_all) ==
    <<SidebarHeader>>
    \o (IF ~load_all THEN <<>>
        ELSE LET all_convos == load_conversations(d)
             IN  IF all_convos # <<>> THEN RenderFrom(1, all_convos)
                 ELSE << [kind |-> "write", text |-> "No conversations found."] >>)

\* variant: the message of the exception is left out
ErrorTextWithoutMessage(e) == "Error: "

\* except Exception as e: bot_response = f"Error: {str(e)}"
ErrorText(e) == "Error: " \o e

\* main(): w holds the widgets (prompt, uploaded_file, send, load_all)
main(d, now, w, api) ==
    LET up == OpenUpload(w.uploaded_file)
        image_obj == up.image_obj
        analysis == analyze_image_with_prompt(image_obj, w.prompt, api)
        bot_response == IF analysis.result.ok THEN analysis.result.value
                        ELSE ErrorText(analysis.result.error)
        answered == up.page \o << [kind |-> "subheader", text |-> "Response:"],
                                  [kind |-> "write", text |-> bot_response] >>
        again == IF image_obj # None THEN encode_image_to_base64(image_obj.some)
                 ELSE Return(<<>>)
        base64_img == IF image_obj # None THEN Some(again.value) ELSE None
    IN  IF ~w.send
        THEN Outcome(None, FALSE, TRUE, up.page, Sidebar(d, w.load_all), d, None, FALSE)
        ELSE IF IsEmptySubmission(w.prompt, image_obj)
        THEN Outcome(None, FALSE, TRUE,
                     up.page \o << [kind |-> "warning",
                                    text |-> "Please provide a prompt or an image."] >>,
                     Sidebar(d, w.load_all), d, None, FALSE)
        ELSE IF ~again.ok
        THEN Outcome(Some(again.error), FALSE, TRUE, answered, <<>>, d,
                     Some(analysis), FALSE)
        ELSE LET d2 == save_conversation(d, now, w.prompt, base64_img, bot_response)
             IN  Outcome(None, FALSE, TRUE, answered, Sidebar(d2, w.load_all), d2,
                         Some(analysis), TRUE)

\* one execution of the script from its first line
Script(sec, d, now, w, api) ==
    IF "OPENAI_API_KEY" \notin DOMAIN sec
    THEN Outcome(Some("'OPENAI_API_KEY'"), FALSE, FALSE, <<>>, <<>>, d, None, FALSE)
    ELSE IF sec["OPENAI_API_KEY"] = ""
    THEN Outcome(None, TRUE, FALSE, << [kind |-> "error", text |-> KeyMissingMessage] >>,
                 <<>>, d, None, FALSE)
    ELSE main(create_table(d), now, w, api)

\* ------------------------------------------------------------------ inputs
Prompts == { <<>>, <<" ", "\n">>, <<"h", "i", " ">> }

ColourJPEG == <<255, 3, 1, 2, 3>>
CMYKJPEG == <<255, 4, 9, 8, 7, 6>>
NotAnImage == <<71, 73, 70>>
Uploads == { None, Some(ColourJPEG), Some(CMYKJPEG), Some(NotAnImage) }

ApiOutcomes == { Return("Hello!"), Raise("Connection error.") }

SecretStores ==
    { <<>>, [k \in {"OPENAI_API_KEY"} |-> ""], [k \in {"OPENAI_API_KEY"} |-> "sk-1"] }

\* ------------------------------------------------------------------- state
VARIABLES
    secrets,     \* st.secrets
    db,          \* conversations.db
    clock,       \* the wall clock, in ticks
    run,         \* the latest run of the script: its widgets, the database and
                 \* counters it started from, and what it did
    calls,       \* calls of analyze_image_with_prompt so far
    requests,    \* chat-completion requests sent so far
    inserted     \* history: the rows in the order save_conversation added them

vars == <<secrets, db, clock, run, calls, requests, inserted>>

NotRun == [kind |-> "none"]

Init ==
    /\ secrets \in SecretStores
    /\ db = NoDatabase
    /\ clock = 0
    /\ run = NotRun
    /\ calls = 0
    /\ requests = 0
    /\ inserted = <<>>

\* one run of the script with widgets w; api is the service's behaviour
RunScript(w, api) ==
    \E out \in {Script(secrets, db, clock, w, api)} :
        /\ db' = out.db
        /\ run' = [kind |-> "run", w |-> w, before |-> db,
                   counts |-> [calls |-> calls, requests |-> requests],
                   exception |-> out.exception, stopped |-> out.stopped,
                   connected |-> out.connected, page |-> out.page,
                   sidebar |-> out.sidebar, analysis |-> out.analysis,
                   saved |-> out.saved]
        /\ calls' = calls + (IF out.analysis # None THEN 1 ELSE 0)
        /\ requests' = requests
               + (IF out.analysis # None /\ out.analysis.some.request # None
                  THEN 1 ELSE 0)
        /\ inserted' =
               IF out.saved
               THEN Append(inserted,
                           [row |-> CHOOSE r \in out.db.conversations :
                                        r \notin db.conversations,
                            image_obj |-> OpenUpload(w.uploaded_file).image_obj,
                            now |-> clock])
               ELSE inserted
        /\ UNCHANGED <<secrets, clock>>

\* the user presses Send, having chosen a prompt and a file among uploads
Press(uploads) ==
    \E prompt \in Prompts, uploaded_file \in uploads, api \in ApiOutcomes :
        RunScript([prompt |-> prompt, uploaded_file |-> uploaded_file,
                   send |-> TRUE, load_all |-> FALSE], api)

Send ==
    /\ calls < MaxCalls
    /\ Press(Uploads)

\* the widgets keep their values from one run to the next
Widgets ==
    IF run.kind = "run" THEN run.w
    ELSE [prompt |-> <<>>, uploaded_file |-> None, send |-> FALSE, load_all |-> FALSE]

\* the user presses Load All in the sidebar
LoadAll ==
    RunScript([prompt |-> Widgets.prompt, uploaded_file |-> Widgets.uploaded_file,
               send |-> FALSE, load_all |-> TRUE], Raise(""))

\* time passes
Tick ==
    /\ clock < MaxClock
    /\ clock' = clock + 1
    /\ UNCHANGED <<secrets, db, run, calls, requests, inserted>>

Next == Send \/ LoadAll \/ Tick

Spec == Init /\ [][Next]_vars

\* A database file that already exists when the program starts, holding rows
\* whose image column is not the base64 text of an image.
ForeignRows ==
    { [id |-> 1, user_prompt |-> <<"o", "l", "d">>,
       base64_image |-> Some(<<"A", "B", "C">>), bot_response |-> "first",
       timestamp |-> "23:59:58"],
      [id |-> 2, user_prompt |-> <<"o", "l", "d">>,
       base64_image |-> Some(<<"A", "A", "A", "A">>), bot_response |-> "second",
       timestamp |-> "23:59:59"] }

InitHistory ==
    /\ secrets = [k \in {"OPENAI_API_KEY"} |-> "sk-1"]
    /\ db = [exists |-> TRUE, conversations |-> ForeignRows, sqlite_sequence |-> 2]
    /\ clock = 0
    /\ run = NotRun
    /\ calls = 0
    /\ requests = 0
    /\ inserted = <<>>

SpecHistory == InitHistory /\ [][Next]_vars

\* Every file made of a PNG or JPEG magic byte, a header byte and up to
\* MaxPixelBytes bytes of pixel data: images of every mode, of every length
\* modulo three, and files that do not open.
PixelBytes == {3, 252}
PixelData == UNION { [1..n -> PixelBytes] : n \in 1..MaxPixelBytes }
CodecFiles ==
    { <<magic, header>> \o data :
        magic \in {PNGMagic, JPEGMagic}, header \in {0, 1, 2, 3, 4, 6}, data \in PixelData }

\* the first run of the script is a Send with any of these files uploaded
SendFirst ==
    /\ run = NotRun
    /\ Press({ Some(file) : file \in CodecFiles })

NextCodec == SendFirst \/ LoadAll \/ Tick

SpecCodec == Init /\ [][NextCodec]_vars

\* ---------------------------------------------------------------- properties
\* the latest run was a Send that got past the startup code
SendRan == run.kind = "run" /\ run.connected /\ run.w.send
\* the latest run was a Load All that got past the startup code
LoadAllRan == run.kind = "run" /\ run.connected /\ run.w.load_all
\* the image the latest run opened, if any
RunImage == OpenUpload(run.w.uploaded_file).image_obj
\* the rows the latest run added
NewRows == db.conversations \ run.before.conversations
\* the texts the latest run wrote under "Response:"
Written == { run.page[i].text : i \in { j \in 1..Len(run.page) : run.page[j].kind = "write" } }
\* the latest run called analyze_image_with_prompt and it raised
AnalyzeRaised == SendRan /\ run.analysis # None /\ ~run.analysis.some.result.ok

\* C1: every Send that passes the empty-input test ends with exactly one new
\* row holding the submitted prompt, whatever analyze_image_with_prompt did.
C1_SubmittedRecordPersisted ==
    (SendRan /\ ~IsEmptySubmission(run.w.prompt, RunImage))
        => /\ Cardinality(NewRows) = 1
           /\ \A r \in NewRows : r.user_prompt = run.w.prompt

\* C3: a Send with a blank prompt and no opened image only shows the warning:
\* analyze_image_with_prompt is not called, no request is sent, no row is added.
C3_EmptySubmissionRejected ==
    (SendRan /\ strip(run.w.prompt) = <<>> /\ RunImage = None)
        => /\ run.analysis = None
           /\ calls = run.counts.calls
           /\ requests = run.counts.requests
           /\ NewRows = {}
           /\ db.conversations = run.before.conversations
           /\ run.exception = None
           /\ \E i \in 1..Len(run.page) : run.page[i].kind = "warning"
           /\ \A i \in 1..Len(run.page) : run.page[i].kind \in {"warning", "error"}

C3_Witness ==
    /\ SendRan
    /\ run.w.prompt = <<" ", "\n">>
    /\ run.w.uploaded_file = Some(NotAnImage)
    /\ run.before.conversations # {}
    /\ \E i \in 1..Len(run.page) : run.page[i].kind = "warning"

\* C4 as claimed: when analyze_image_with_prompt raises with message m, the
\* Send run ends without an exception, and the text shown and the bot_response
\* stored are both m.
C4_ErrorTextIsMessage ==
    AnalyzeRaised
        => /\ run.exception = None
           /\ Written = {run.analysis.some.result.error}
           /\ \E r \in NewRows : r.bot_response = run.analysis.some.result.error

\* C4 amended: when analyze_image_with_prompt raises with message m, the text
\* shown is "Error: " followed by m; a record stored by that run holds the
\* same text; and when the failure came from the request itself (the image,
\* if any, was encoded) the run ends without an exception and stores it.
C4_ErrorTextStored ==
    AnalyzeRaised
        => LET m == run.analysis.some.result.error
           IN  /\ Written = {"Error: " \o m}
               /\ \A r \in NewRows : r.bot_response = "Error: " \o m
               /\ run.analysis.some.request # None
                      => run.exception = None /\ Cardinality(NewRows) = 1

C4_Witness ==
    /\ AnalyzeRaised
    /\ run.analysis.some.request # None
    /\ \E r \in NewRows : r.bot_response = "Error: Connection error."

\* C5: when the OPENAI_API_KEY secret is absent or empty, a run shows the
\* "OpenAI API key not found" error and stops before the database is opened.
C5_MissingKeyHalts ==
    (run.kind = "run"
     /\ ("OPENAI_API_KEY" \notin DOMAIN secrets \/ secrets["OPENAI_API_KEY"] = ""))
        => /\ ~run.connected
           /\ db = NoDatabase
           /\ run.analysis = None
           /\ \E i \in 1..Len(run.page) :
                  run.page[i] = [kind |-> "error", text |-> KeyMissingMessage]

\* C7: the number of rows equals the number of calls of
\* analyze_image_with_prompt.
C7_RowsEqualCalls == Cardinality(db.conversations) = calls

\* the columns of the rows in the order save_conversation added them, latest first
InsertedNewestFirst ==
    [i \in 1..Len(inserted) |-> Columns(inserted[Len(inserted) + 1 - i].row)]

\* C2: load_conversations returns every stored record exactly once, a record
\* inserted later before every record inserted earlier; ids grow with insertion.
C2_NewestFirst ==
    /\ load_conversations(db) = InsertedNewestFirst
    /\ Len(load_conversations(db)) = Cardinality(db.conversations)
    /\ \A i, j \in 1..Len(inserted) : i < j => inserted[i].row.id < inserted[j].row.id

C2_Witness ==
    /\ LoadAllRan
    /\ Len(inserted) = 2
    /\ inserted[1].row.timestamp = inserted[2].row.timestamp
    /\ inserted[1].row # inserted[2].row
    /\ Len(run.sidebar) > 8

\* C6: the log is append-only: every record ever stored is still in the table,
\* and no step of the program changes or removes a row.
C6_AppendOnly ==
    /\ [](\A i \in 1..Len(inserted) : inserted[i].row \in db.conversations)
    /\ [][db.conversations \subseteq db'.conversations]_vars

C6_Witness ==
    /\ run.kind = "run" /\ run.connected /\ ~run.saved
    /\ Cardinality(run.before.conversations) = 2
    /\ db.conversations = run.before.conversations

\* the sidebar entries that are not images
IsText(e) == e.kind # "image"
RECURSIVE TextEntriesFrom(_, _)
TextEntriesFrom(idx, all_convos) ==
    IF idx > Len(all_convos) THEN <<>>
    ELSE << [kind |-> "markdown", idx |-> idx, timestamp |-> all_convos[idx][4]],
            [kind |-> "markdown", user_prompt |-> all_convos[idx][1]],
            [kind |-> "markdown", bot_response |-> all_convos[idx][3]],
            [kind |-> "write", text |-> "---"] >>
         \o TextEntriesFrom(idx + 1, all_convos)
\* the stored records whose image column decodes to an image
Decodable ==
    { r \in db.conversations :
        Truthy(r.base64_image) /\ decode_base64_to_image(r.base64_image.some).ok }

\* C8: a file that does not open is reported on the page and the run goes on
\* without an image; a stored image that does not decode is left out of the
\* history while every record's timestamp, prompt and response are rendered.
C8_ImageFailuresContained ==
    /\ (run.kind = "run" /\ run.connected /\ run.w.uploaded_file # None
        /\ ~Image_open(run.w.uploaded_file.some).ok)
           => /\ run.exception = None
              /\ run.page[1] = [kind |-> "error",
                                text |-> "Error reading image: "
                                    \o Image_open(run.w.uploaded_file.some).error]
              /\ \A r \in NewRows : r.base64_image = None
              /\ run.analysis # None
                     => run.analysis.some.request
                            = Some(<< [type |-> "text", text |-> run.w.prompt] >>)
              /\ (run.w.send /\ strip(run.w.prompt) = <<>>) => run.analysis = None
    /\ (LoadAllRan /\ db.conversations # {})
           => /\ run.exception = None
              /\ SelectSeq(run.sidebar, IsText)
                     = <<SidebarHeader>> \o TextEntriesFrom(1, load_conversations(db))
              /\ Len(run.sidebar) = 1 + 4 * Cardinality(db.conversations)
                                      + Cardinality(Decodable)

C8_Witness ==
    /\ LoadAllRan
    /\ run.w.uploaded_file = Some(NotAnImage)
    /\ run.page # <<>>
    /\ ForeignRows \subseteq db.conversations
    /\ Cardinality(Decodable) = 1
    /\ Cardinality(db.conversations) = 4

\* C9: every row carries the timestamp save_conversation took from the clock
\* when it inserted the row, and it keeps it; the image column is null exactly
\* when the submission had no opened image; the prompt column is the submitted
\* prompt and the response column the text that was shown.
C9_RowsStamped ==
    /\ [](/\ db.conversations = { inserted[i].row : i \in 1..Len(inserted) }
          /\ \A i \in 1..Len(inserted) :
                 /\ inserted[i].row.timestamp = strftime(inserted[i].now)
                 /\ Len(inserted[i].row.timestamp) = 8
                 /\ inserted[i].row.base64_image = None <=> inserted[i].image_obj = None
          /\ (SendRan /\ run.saved)
                 => \A r \in NewRows :
                        r.user_prompt = run.w.prompt /\ r.bot_response \in Written)
    /\ [][\A r \in db.conversations :
              \E q \in db'.conversations : q.id = r.id /\ q.timestamp = r.timestamp]_vars

C9_Witness ==
    /\ Len(inserted) = 2
    /\ inserted[1].row.timestamp = "00:00:00"
    /\ inserted[2].row.timestamp = "00:00:01"
    /\ inserted[1].row.base64_image = None
    /\ inserted[2].row.base64_image # None

====
